---------------------------- MODULE Spec2Model ----------------------------
(***************************************************************************)
(* A model of n64io.py: the host side of a serial link to a Nintendo 64    *)
(* controller and whatever sits in its expansion port.                     *)
(*                                                                         *)
(*   Spec     one run of the program: one of the five commands of          *)
(*            __main__, from N64Controller() to the process's exit.        *)
(*   SpecApi  a client that calls the methods of one N64Controller in any  *)
(*            order.                                                       *)
(*   SpecCrc  addr_crc, one loop iteration per step, on every 32-byte      *)
(*            aligned 16-bit address.                                      *)
(*                                                                         *)
(* The serial device is the environment.  Each _do_cmd round trip has one  *)
(* of three outcomes: "ok", "wfail" (serial.write raised, nothing was      *)
(* sent) and "rfail" (the frame was sent and serial.read raised).  What a  *)
(* read returns is chosen by the environment from small sets of blocks.    *)
(***************************************************************************)
EXTENDS Integers, Sequences, FiniteSets, TLC

VARIABLES
    cmd,        \* sys.argv[1], or "api" for a client of the class
    pc,         \* the next call of the command, "done" after the exit
    exc,        \* the exception travelling through a finally block
    outcome,    \* [msg, code]: the line printed and the exit status
    hb,         \* self._tpak_high_bits: <<>> while the attribute is unset
    ram_bytes,  \* local of the cartridge commands
    i,          \* the bank loop's index
    addr,       \* the address loop's index
    stdin,      \* bytes left on standard input
    out,        \* blocks written to standard output, run-length encoded
    log,        \* commands issued to the controller, run-length encoded
    chan,       \* the latest events on the serial channel
    call,       \* SpecApi: the latest method call
    prevSel,    \* SpecApi: <<selector>> of the latest tpak_read/tpak_write
                \*          since the latest tpak_detect_pak, else <<>>
    sincePower, \* SpecApi: a tpak_set_power call has returned and no
                \*          tpak_read or tpak_write was called since
    crcAddr,    \* SpecCrc: the argument of addr_crc
    crc,        \* SpecCrc: the local crc
    crcI        \* SpecCrc: iterations left, -1 before the seed is taken

vars == <<cmd, pc, exc, outcome, hb, ram_bytes, i, addr, stdin, out, log,
          chan, call, prevSel, sincePower, crcAddr, crc, crcI>>

progVars == <<cmd, pc, exc, outcome, hb, ram_bytes, i, addr, stdin, out,
              log, chan>>
apiVars == <<call, prevSel, sincePower>>
crcVars == <<crcAddr, crc, crcI>>

-----------------------------------------------------------------------------
(* Bounds of the model *)

\* How many channel events chan keeps.
ChanWindow == 4

-----------------------------------------------------------------------------
(* Python's integer operators on naturals *)

Shr(x, n) == x \div (2 ^ n)
Shl(x, n) == x * (2 ^ n)

RECURSIVE BitAnd(_, _)
BitAnd(x, y) ==
    IF x = 0 \/ y = 0 THEN 0
    ELSE (IF x % 2 = 1 /\ y % 2 = 1 THEN 1 ELSE 0)
         + 2 * BitAnd(x \div 2, y \div 2)

RECURSIVE BitOr(_, _)
BitOr(x, y) ==
    IF x = 0 THEN y
    ELSE IF y = 0 THEN x
    ELSE (IF x % 2 = 1 \/ y % 2 = 1 THEN 1 ELSE 0)
         + 2 * BitOr(x \div 2, y \div 2)

RECURSIVE BitXor(_, _)
BitXor(x, y) ==
    IF x = 0 THEN y
    ELSE IF y = 0 THEN x
    ELSE (IF x % 2 /= y % 2 THEN 1 ELSE 0)
         + 2 * BitXor(x \div 2, y \div 2)

-----------------------------------------------------------------------------
(* addr_crc *)

\* The seed: crc = addr >> 11
CrcSeed(a) == Shr(a, 11)

\* A mutant of CrcStep: the polynomial is never subtracted.
CrcStepNoXor(c, a, k) ==
    BitOr(Shl(c, 1), IF BitAnd(a, Shl(1, k)) /= 0 THEN 1 ELSE 0)

\* A mutant of CrcStep: the polynomial of the comment (0x15) is XORed in
\* without its top bit.
CrcStepPoly15(c, a, k) ==
    LET c1 == Shl(c, 1)
        c2 == BitOr(c1, IF BitAnd(a, Shl(1, k)) /= 0 THEN 1 ELSE 0)
    IN  IF BitAnd(c2, 32) /= 0 THEN BitXor(c2, 21) ELSE c2

\* A mutant of CrcStep: the polynomial is subtracted before the address
\* bit is ORed in.
CrcStepXorFirst(c, a, k) ==
    LET c1 == Shl(c, 1)
        c2 == IF BitAnd(c1, 32) /= 0 THEN BitXor(c1, 53) ELSE c1
    IN  BitOr(c2, IF BitAnd(a, Shl(1, k)) /= 0 THEN 1 ELSE 0)

\* One iteration of the loop, for bit k of the address.
CrcStep(c, a, k) ==
    LET c1 == Shl(c, 1)
        c2 == BitOr(c1, IF BitAnd(a, Shl(1, k)) /= 0 THEN 1 ELSE 0)
    IN  IF BitAnd(c2, 32) /= 0 THEN BitXor(c2, 53) ELSE c2

\* The loop from bit k down to bit 0: for i in reversed(range(k + 1)).
RECURSIVE CrcLoop(_, _, _)
CrcLoop(c, a, k) ==
    IF k < 0 THEN c ELSE CrcLoop(CrcStep(c, a, k), a, k - 1)

addr_crc(a) == CrcLoop(CrcSeed(a), a, 10)

\* The addresses addr_crc is meant for: 16 bits, the low 5 zero.
AlignedAddrs == {32 * k : k \in 0..2047}

\* addr |= addr_crc(addr), for every aligned address, computed once.
CrcTable == [a \in AlignedAddrs |-> BitOr(a, addr_crc(a))]

WithCrc(a) == CrcTable[a]

-----------------------------------------------------------------------------
(* Blocks and bytes *)

BlockLen == 32

Block(b) == [k \in 1..BlockLen |-> b]

\* bytes((b,)) * 32 with one byte replaced: a block that is no repetition.
Mixed == [k \in 1..BlockLen |-> IF k = 1 THEN 1 ELSE 0]

\* A ROM header block whose byte 9 is the RAM size code c.
HeaderBlock(c) == [k \in 1..BlockLen |-> IF k = 10 THEN c ELSE 0]

-----------------------------------------------------------------------------
(* The environment: outcomes of a round trip and what reads return *)

Outcomes == {"ok", "wfail", "rfail"}

\* The outcomes of a call that issues up to n commands: all succeed, or one
\* fails.  The call raises at its first failure and issues nothing after it,
\* so what the later commands would have met is left out.
OutcomeSeqs(n) ==
    {[k \in 1..n |-> "ok"]}
    \cup {[k \in 1..n |-> IF k = j THEN f ELSE "ok"] :
             j \in 1..n, f \in {"wfail", "rfail"}}

\* Status responses: bit 0 of the third byte says an accessory is present.
StatusResps == {<<5, 0, 1>>, <<5, 0, 2>>}

\* What a read of 0x8000 may return.
ProbeBlocks == {Block(132), Block(128), Mixed}

\* What the read-back of 0xB000 may return.
DetectBlocks == {Block(137), Block(0)}

\* The RAM size codes a cartridge header may carry.
RamCodes == {0, 1, 2, 3, 5, 255}

\* What every other location reads as.
FillBlock == Block(0)

\* What a Controller Pak returns for the block at address a: zeros, or, for
\* the second block, a block that differs from its neighbours.
CpakReads(a) == IF a = 32 THEN {FillBlock, Mixed} ELSE {FillBlock}

\* Standard input: how many bytes it holds (8 KiB, a block and a quarter:
\* enough for a cartridge of up to 8 KiB, too short for a larger one and for
\* a Controller Pak), and the byte it repeats.
StdinSizes == {8232}

-----------------------------------------------------------------------------
(* History: the command log and the channel window *)

\* The address of the last command of a log entry.
LastAddr(e) == e.addr + BlockLen * (e.n - 1)
LastCart(e) == IF e.cart < 0 THEN e.cart ELSE e.cart + BlockLen * (e.n - 1)

\* Append command t to log l.  A command that continues the last entry (same
\* caller, same operation, same data, the next block's address) is counted
\* in that entry's n instead of getting an entry of its own.
Record(l, t) ==
    LET e == l[Len(l)]
    IN  IF /\ Len(l) > 0
           /\ e.by = t.by /\ e.op = t.op /\ e.data = t.data
           /\ e.res = "ok" /\ t.res = "ok"
           /\ t.addr >= 0 /\ t.addr = LastAddr(e) + BlockLen
           /\ t.cart = (IF e.cart < 0 THEN e.cart
                        ELSE LastCart(e) + BlockLen)
        THEN [l EXCEPT ![Len(l)].n = e.n + 1]
        ELSE Append(l, t)

\* The last w elements of s.
Keep(s, w) == IF Len(s) <= w THEN s ELSE SubSeq(s, Len(s) - w + 1, Len(s))

\* Append block d to standard output.
Emit(o, d) ==
    IF Len(o) > 0 /\ o[Len(o)].data = d
    THEN [o EXCEPT ![Len(o)].n = o[Len(o)].n + 1]
    ELSE Append(o, [data |-> d, n |-> 1])

\* sys.stdin.buffer.read(32) with left bytes left.
StdinRead(left) ==
    [k \in 1..(IF left < BlockLen THEN left ELSE BlockLen) |-> 90]

-----------------------------------------------------------------------------
(* N64Controller: the transport and the five commands.                      *)
(* Each operator takes the controller m = [log, chan, hb, exc, val] and     *)
(* returns it after the call: exc says the call raised, val is what it      *)
(* returned.  A call on a controller that has already raised does nothing:  *)
(* the exception is on its way out.                                         *)

\* A mutant of do_cmd: the read asks for one byte less than the header says.
do_cmd_short_read(m, cmdbuf, resplen, o, resp) ==
    LET frame == <<Len(cmdbuf), resplen>> \o cmdbuf
        w == [ev |-> "write", bytes |-> frame, n |-> Len(frame),
              ok |-> o /= "wfail"]
        r == [ev |-> "read", bytes |-> IF o = "ok" THEN resp ELSE <<>>,
              n |-> resplen - 1, ok |-> o = "ok"]
    IN  IF m.exc THEN m
        ELSE [m EXCEPT
                !.chan = Keep(IF o = "wfail" THEN Append(@, w)
                              ELSE Append(Append(@, w), r), ChanWindow),
                !.exc = o /= "ok",
                !.val = IF o = "ok" THEN resp ELSE <<>>]

\* _do_cmd: cmdbuf = bytes((len(cmdbuf), resplen)) + cmdbuf;
\* self._serial.write(cmdbuf); return self._serial.read(resplen)
do_cmd(m, cmdbuf, resplen, o, resp) ==
    LET frame == <<Len(cmdbuf), resplen>> \o cmdbuf
        w == [ev |-> "write", bytes |-> frame, n |-> Len(frame),
              ok |-> o /= "wfail"]
        r == [ev |-> "read", bytes |-> IF o = "ok" THEN resp ELSE <<>>,
              n |-> resplen, ok |-> o = "ok"]
    IN  IF m.exc THEN m
        ELSE [m EXCEPT
                !.chan = Keep(IF o = "wfail" THEN Append(@, w)
                              ELSE Append(Append(@, w), r), ChanWindow),
                !.exc = o /= "ok",
                !.val = IF o = "ok" THEN resp ELSE <<>>]

\* A log entry for one command.
Txn(by, op, a, cart, data, o) ==
    [by |-> by, op |-> op, addr |-> a, cart |-> cart, data |-> data,
     res |-> o, n |-> 1]

Logged(m, m1, t) == IF m.exc THEN m ELSE [m1 EXCEPT !.log = Record(m.log, t)]

\* _do_status
do_status(m, by, o, resp) ==
    Logged(m, do_cmd(m, <<0>>, 3, o, resp),
           Txn(by, "status", -1, -1, IF o = "ok" THEN resp ELSE <<>>, o))

\* _do_button_status
do_button_status(m, by, o, resp) ==
    Logged(m, do_cmd(m, <<1>>, 4, o, resp),
           Txn(by, "button", -1, -1, IF o = "ok" THEN resp ELSE <<>>, o))

\* _do_pak_read: the 33rd byte of the response is dropped.
do_pak_read(m, by, cart, a, o, blk) ==
    LET ac == WithCrc(a)
        m1 == do_cmd(m, <<2, Shr(ac, 8), BitAnd(ac, 255)>>, 33, o,
                     blk \o <<0>>)
    IN  Logged(m, [m1 EXCEPT !.val = IF m1.exc THEN <<>>
                                     ELSE SubSeq(@, 1, 32)],
               Txn(by, "read", a, cart, IF o = "ok" THEN blk ELSE <<>>, o))

\* _do_pak_write
do_pak_write(m, by, cart, a, data, o) ==
    LET ac == WithCrc(a)
    IN  Logged(m, do_cmd(m, <<3, Shr(ac, 8), BitAnd(ac, 255)>> \o data, 1,
                         o, <<0>>),
               Txn(by, "write", a, cart, data, o))

\* _do_reset
do_reset(m, by, o, resp) ==
    Logged(m, do_cmd(m, <<255>>, 3, o, resp),
           Txn(by, "reset", -1, -1, IF o = "ok" THEN resp ELSE <<>>, o))

\* A mutant of has_pak: bit 1 of the status byte is tested.
has_pak_bit1(m, o, resp) ==
    LET m1 == do_status(m, "has_pak", o, resp)
    IN  IF m1.exc THEN m1
        ELSE [m1 EXCEPT !.val = BitAnd(m1.val[3], 2) /= 0]

\* has_pak: bool(status[2] & 0x01)
has_pak(m, o, resp) ==
    LET m1 == do_status(m, "has_pak", o, resp)
    IN  IF m1.exc THEN m1
        ELSE [m1 EXCEPT !.val = BitAnd(m1.val[3], 1) /= 0]

-----------------------------------------------------------------------------
(* N64Controller: the probes and the Transfer Pak methods.                  *)
(* o is the sequence of outcomes of the call's commands, in the order they  *)
(* are issued, and r the sequence of blocks its reads return.               *)

\* A mutant of pak_is_transfer_pak: the saved block is not written back
\* after the 0xfe block.
pak_is_transfer_pak_no_restore(m, o, r) ==
    LET by == "pak_is_transfer_pak"
        m1 == do_pak_read(m, by, -1, 32768, o[1], r[1])
        old_block == m1.val
        m2 == do_pak_write(m1, by, -1, 32768, Block(132), o[2])
        m3 == do_pak_read(m2, by, -1, 32768, o[3], r[2])
    IN  IF m3.exc THEN m3
        ELSE IF m3.val = Block(132)
        THEN LET m4 == do_pak_write(m3, by, -1, 32768, Block(254), o[4])
             IN  IF m4.exc THEN m4 ELSE [m4 EXCEPT !.val = TRUE]
        ELSE LET m4 == do_pak_write(m3, by, -1, 32768, old_block, o[4])
             IN  IF m4.exc THEN m4 ELSE [m4 EXCEPT !.val = FALSE]

\* pak_is_transfer_pak
pak_is_transfer_pak(m, o, r) ==
    LET by == "pak_is_transfer_pak"
        m1 == do_pak_read(m, by, -1, 32768, o[1], r[1])
        old_block == m1.val
        m2 == do_pak_write(m1, by, -1, 32768, Block(132), o[2])
        m3 == do_pak_read(m2, by, -1, 32768, o[3], r[2])
    IN  IF m3.exc THEN m3
        ELSE IF m3.val = Block(132)
        THEN LET m4 == do_pak_write(m3, by, -1, 32768, Block(254), o[4])
                 m5 == do_pak_write(m4, by, -1, 32768, old_block, o[5])
             IN  IF m5.exc THEN m5 ELSE [m5 EXCEPT !.val = TRUE]
        ELSE LET m4 == do_pak_write(m3, by, -1, 32768, old_block, o[4])
             IN  IF m4.exc THEN m4 ELSE [m4 EXCEPT !.val = FALSE]

\* pak_is_rumble_pak
pak_is_rumble_pak(m, o, r) ==
    LET by == "pak_is_rumble_pak"
        m1 == do_pak_read(m, by, -1, 32768, o[1], r[1])
        old_block == m1.val
        m2 == do_pak_write(m1, by, -1, 32768, Block(254), o[2])
        m3 == do_pak_write(m2, by, -1, 32768, Block(128), o[3])
        m4 == do_pak_read(m3, by, -1, 32768, o[4], r[2])
        m5 == do_pak_write(m4, by, -1, 32768, old_block, o[5])
    IN  IF m5.exc THEN m5 ELSE [m5 EXCEPT !.val = (m4.val = Block(128))]

\* tpak_set_power
tpak_set_power(m, power, o) ==
    do_pak_write(m, "tpak_set_power", -1, 32768,
                 IF power THEN Block(132) ELSE Block(254), o)

\* A mutant of tpak_detect_pak: any answered read-back counts as a
\* cartridge.
tpak_detect_pak_any(m, o, r) ==
    LET by == "tpak_detect_pak"
        m0 == IF m.exc THEN m ELSE [m EXCEPT !.hb = <<-1>>]
        m1 == do_pak_write(m0, by, -1, 45056, Block(1), o[1])
        m2 == do_pak_read(m1, by, -1, 45056, o[2], r[1])
    IN  IF m2.exc THEN m2 ELSE [m2 EXCEPT !.val = TRUE]

\* tpak_detect_pak
tpak_detect_pak(m, o, r) ==
    LET by == "tpak_detect_pak"
        m0 == IF m.exc THEN m ELSE [m EXCEPT !.hb = <<-1>>]
        m1 == do_pak_write(m0, by, -1, 45056, Block(1), o[1])
        m2 == do_pak_read(m1, by, -1, 45056, o[2], r[1])
    IN  IF m2.exc THEN m2 ELSE [m2 EXCEPT !.val = (m2.val = Block(137))]

\* A mutant of tpak_select: the cache is never written.
tpak_select_uncached(m, by, a, o) ==
    IF m.exc \/ m.hb = <<>> THEN [m EXCEPT !.exc = TRUE]
    ELSE IF Shr(a, 14) /= m.hb[1]
    THEN do_pak_write(m, by, a, 40960, Block(Shr(a, 14)), o)
    ELSE m

\* A mutant of tpak_select: the window is written on every call.
tpak_select_always(m, by, a, o) ==
    IF m.exc \/ m.hb = <<>> THEN [m EXCEPT !.exc = TRUE]
    ELSE do_pak_write([m EXCEPT !.hb = <<Shr(a, 14)>>], by, a, 40960,
                      Block(Shr(a, 14)), o)

\* The first statement of tpak_read and of tpak_write:
\*   if addr >> 14 != self._tpak_high_bits:
\*       self._tpak_high_bits = addr >> 14
\*       self._do_pak_write(0xa000, bytes((self._tpak_high_bits,)) * 32)
\* Reading the attribute before tpak_detect_pak has set it raises.
tpak_select(m, by, a, o) ==
    IF m.exc \/ m.hb = <<>> THEN [m EXCEPT !.exc = TRUE]
    ELSE IF Shr(a, 14) /= m.hb[1]
    THEN do_pak_write([m EXCEPT !.hb = <<Shr(a, 14)>>], by, a, 40960,
                      Block(Shr(a, 14)), o)
    ELSE m

\* Which of a call's outcomes its block access takes: the second when the
\* window is selected first.
AccessOutcome(m, a, o) ==
    IF m.hb /= <<>> /\ Shr(a, 14) /= m.hb[1] THEN o[2] ELSE o[1]

\* A mutant of tpak_read: the access goes to addr | 0x8000.
tpak_read_low_window(m, a, o, r) ==
    LET m1 == tpak_select(m, "tpak_read", a, o[1])
    IN  do_pak_read(m1, "tpak_read", a, BitOr(a, 32768),
                    AccessOutcome(m, a, o), r)

\* tpak_read
tpak_read(m, a, o, r) ==
    LET m1 == tpak_select(m, "tpak_read", a, o[1])
    IN  do_pak_read(m1, "tpak_read", a, BitOr(a, 49152),
                    AccessOutcome(m, a, o), r)

\* tpak_write
tpak_write(m, a, data, o) ==
    LET m1 == tpak_select(m, "tpak_write", a, o[1])
    IN  do_pak_write(m1, "tpak_write", a, BitOr(a, 49152), data,
                     AccessOutcome(m, a, o))

\* RAM_SIZE_CODES and ram_size_code_to_bytes
RAM_SIZE_CODES == (0 :> 0) @@ (1 :> 512) @@ (2 :> 8192) @@ (3 :> 32768)
                  @@ (4 :> 131072)

ram_size_code_to_bytes(code) ==
    IF code \in DOMAIN RAM_SIZE_CODES THEN RAM_SIZE_CODES[code] ELSE -1

-----------------------------------------------------------------------------
(* The program: __main__ runs one command on a fresh controller *)

Commands == {"identify-pak", "dump-controller-pak", "restore-controller-pak",
             "dump-cartridge-sram", "restore-cartridge-sram"}

CpakCommands == {"dump-controller-pak", "restore-controller-pak"}
CartCommands == {"dump-cartridge-sram", "restore-cartridge-sram"}
RestoreCommands == {"restore-controller-pak", "restore-cartridge-sram"}

\* The controller as the next call finds it.
M == [log |-> log, chan |-> chan, hb |-> hb, exc |-> FALSE, val |-> <<>>]

\* The controller as the call leaves it.
Commit(m) == log' = m.log /\ chan' = m.chan /\ hb' = m.hb

\* The process ends: msg is the line written, code the exit status.  An
\* exception nobody catches ends it with a traceback and status 1.
Exit(msg, code) == pc' = "done" /\ outcome' = [msg |-> msg, code |-> code]
Traceback == Exit("Traceback", 1)

NoOutcome == [msg |-> "", code |-> -1]

Init ==
    /\ cmd \in Commands
    /\ pc = "has_pak"
    /\ exc = "none"
    /\ outcome = NoOutcome
    /\ hb = <<>>
    /\ ram_bytes = 0
    /\ i = 0
    /\ addr = 0
    /\ stdin \in (IF cmd \in RestoreCommands THEN StdinSizes ELSE {0})
    /\ out = <<>>
    /\ log = <<>>
    /\ chan = <<>>
    /\ call = <<>>
    /\ prevSel = <<>>
    /\ sincePower = FALSE
    /\ crcAddr = 0
    /\ crc = 0
    /\ crcI = -1

\* controller.has_pak(), the first call of every command
HasPak ==
    /\ pc = "has_pak"
    /\ \E o \in Outcomes, resp \in StatusResps :
         LET m == has_pak(M, o, resp)
         IN  /\ Commit(m)
             /\ IF m.exc THEN Traceback
                ELSE IF ~m.val
                THEN Exit("No Pak inserted.",
                          IF cmd = "identify-pak" THEN 0 ELSE 1)
                ELSE pc' = "is_tpak" /\ outcome' = outcome
    /\ UNCHANGED <<cmd, exc, ram_bytes, i, addr, stdin, out, apiVars, crcVars>>

\* A mutant of PakIsTransferPak: identify-pak and the Controller Pak
\* commands go on to pak_is_rumble_pak whatever the answer.
PakIsTransferPakThenRumble ==
    /\ pc = "is_tpak"
    /\ \E o \in OutcomeSeqs(5), r \in [1..2 -> ProbeBlocks] :
         LET m == pak_is_transfer_pak(M, o, r)
         IN  /\ Commit(m)
             /\ IF m.exc THEN Traceback
                ELSE IF cmd = "identify-pak"
                THEN pc' = "is_rumble" /\ outcome' = outcome
                ELSE IF cmd \in CpakCommands
                THEN pc' = "is_rumble" /\ outcome' = outcome
                ELSE IF m.val THEN pc' = "power_on" /\ outcome' = outcome
                     ELSE Exit("Incorrect Pak inserted.", 1)
    /\ UNCHANGED <<cmd, exc, ram_bytes, i, addr, stdin, out, apiVars, crcVars>>

\* controller.pak_is_transfer_pak()
PakIsTransferPak ==
    /\ pc = "is_tpak"
    /\ \E o \in OutcomeSeqs(5), r \in [1..2 -> ProbeBlocks] :
         LET m == pak_is_transfer_pak(M, o, r)
         IN  /\ Commit(m)
             /\ IF m.exc THEN Traceback
                ELSE IF cmd = "identify-pak"
                THEN IF m.val THEN Exit("Transfer Pak inserted.", 0)
                     ELSE pc' = "is_rumble" /\ outcome' = outcome
                ELSE IF cmd \in CpakCommands
                THEN IF m.val THEN Exit("Incorrect Pak inserted.", 1)
                     ELSE pc' = "is_rumble" /\ outcome' = outcome
                ELSE IF m.val THEN pc' = "power_on" /\ outcome' = outcome
                     ELSE Exit("Incorrect Pak inserted.", 1)
    /\ UNCHANGED <<cmd, exc, ram_bytes, i, addr, stdin, out, apiVars, crcVars>>

\* controller.pak_is_rumble_pak()
PakIsRumblePak ==
    /\ pc = "is_rumble"
    /\ \E o \in OutcomeSeqs(5), r \in [1..2 -> ProbeBlocks] :
         LET m == pak_is_rumble_pak(M, o, r)
         IN  /\ Commit(m)
             /\ IF m.exc THEN Traceback
                ELSE IF cmd = "identify-pak"
                THEN Exit(IF m.val THEN "Rumble Pak inserted."
                          ELSE "Controller Pak inserted.", 0)
                ELSE IF m.val THEN Exit("Incorrect Pak inserted.", 1)
                     ELSE pc' = "cpak_loop" /\ outcome' = outcome
    /\ UNCHANGED <<cmd, exc, ram_bytes, i, addr, stdin, out, apiVars, crcVars>>

\* A mutant of DumpControllerPak: the loop stops one block early,
\* range(0, 0x8000 - 32, 32).
DumpControllerPakShort ==
    /\ pc = "cpak_loop" /\ cmd = "dump-controller-pak"
    /\ \E o \in Outcomes, blk \in CpakReads(addr) :
         LET m == do_pak_read(M, "cmd_dump_controller_pak", -1, addr, o,
                              blk)
         IN  /\ Commit(m)
             /\ IF m.exc THEN Traceback /\ UNCHANGED <<addr, out>>
                ELSE /\ out' = Emit(out, m.val)
                     /\ addr' = addr + 32
                     /\ IF addr + 32 < 32736
                        THEN pc' = pc /\ outcome' = outcome
                        ELSE Exit("", 0)
    /\ UNCHANGED <<cmd, exc, ram_bytes, i, stdin, apiVars, crcVars>>

\* cmd_dump_controller_pak: one iteration of
\*   for addr in range(0, 0x8000, 32):
\*       sys.stdout.buffer.write(controller._do_pak_read(addr))
DumpControllerPak ==
    /\ pc = "cpak_loop" /\ cmd = "dump-controller-pak"
    /\ \E o \in Outcomes, blk \in CpakReads(addr) :
         LET m == do_pak_read(M, "cmd_dump_controller_pak", -1, addr, o,
                              blk)
         IN  /\ Commit(m)
             /\ IF m.exc THEN Traceback /\ UNCHANGED <<addr, out>>
                ELSE /\ out' = Emit(out, m.val)
                     /\ addr' = addr + 32
                     /\ IF addr + 32 < 32768
                        THEN pc' = pc /\ outcome' = outcome
                        ELSE Exit("", 0)
    /\ UNCHANGED <<cmd, exc, ram_bytes, i, stdin, apiVars, crcVars>>

\* cmd_restore_controller_pak: one iteration of
\*   for addr in range(0, 0x8000, 32):
\*       controller._do_pak_write(addr, sys.stdin.buffer.read(32))
RestoreControllerPak ==
    /\ pc = "cpak_loop" /\ cmd = "restore-controller-pak"
    /\ \E o \in Outcomes :
         LET data == StdinRead(stdin)
             m == do_pak_write(M, "cmd_restore_controller_pak", -1, addr,
                               data, o)
         IN  /\ Commit(m)
             /\ stdin' = stdin - Len(data)
             /\ IF m.exc THEN Traceback /\ addr' = addr
                ELSE /\ addr' = addr + 32
                     /\ IF addr + 32 < 32768
                        THEN pc' = pc /\ outcome' = outcome
                        ELSE Exit("", 0)
    /\ UNCHANGED <<cmd, exc, ram_bytes, i, out, apiVars, crcVars>>

-----------------------------------------------------------------------------
(* The cartridge commands: tpak_setup, tpak_ram_enabled and the loops *)

\* A mutant of SysExit: the process ends at once, no finally block runs.
SysExitNoFinally(msg) ==
    /\ outcome' = [msg |-> msg, code |-> 1]
    /\ exc' = "none"
    /\ pc' = "done"

\* sys.exit(1) inside tpak_setup's try: the line is written, and SystemExit
\* travels through the finally blocks.
SysExit(msg) ==
    /\ outcome' = [msg |-> msg, code |-> 1]
    /\ exc' = "SystemExit"
    /\ pc' = "power_off"

\* tpak_setup: controller.tpak_set_power(True), before the try
TpakPowerOn ==
    /\ pc = "power_on"
    /\ \E o \in Outcomes :
         LET m == tpak_set_power(M, TRUE, o)
         IN  /\ Commit(m)
             /\ IF m.exc THEN Traceback
                ELSE pc' = "detect" /\ outcome' = outcome
    /\ UNCHANGED <<cmd, exc, ram_bytes, i, addr, stdin, out, apiVars, crcVars>>

\* tpak_setup: if not controller.tpak_detect_pak(): ... sys.exit(1)
TpakDetectPak ==
    /\ pc = "detect"
    /\ \E o \in OutcomeSeqs(2), r \in [1..1 -> DetectBlocks] :
         LET m == tpak_detect_pak(M, o, r)
         IN  /\ Commit(m)
             /\ IF m.exc
                THEN /\ exc' = "SerialException" /\ pc' = "power_off"
                     /\ outcome' = outcome
                ELSE IF ~m.val THEN SysExit("No cartridge inserted.")
                ELSE pc' = "header" /\ exc' = exc /\ outcome' = outcome
    /\ UNCHANGED <<cmd, ram_bytes, i, addr, stdin, out, apiVars, crcVars>>

\* ram_code = controller.tpak_read(0x0140)[9] and the two checks of
\* ram_bytes
ReadHeader ==
    /\ pc = "header"
    /\ \E o \in OutcomeSeqs(2), c \in RamCodes :
         LET m == tpak_read(M, 320, o, HeaderBlock(c))
             bytes == ram_size_code_to_bytes(m.val[10])
         IN  /\ Commit(m)
             /\ IF m.exc
                THEN /\ exc' = "SerialException" /\ pc' = "power_off"
                     /\ outcome' = outcome /\ ram_bytes' = ram_bytes
                ELSE /\ ram_bytes' = bytes
                     /\ IF bytes = -1 THEN SysExit("Unrecognized RAM code.")
                        ELSE IF bytes = 0
                        THEN SysExit("Cartridge has no RAM.")
                        ELSE pc' = "ram_on" /\ exc' = exc
                             /\ outcome' = outcome
    /\ UNCHANGED <<cmd, i, addr, stdin, out, apiVars, crcVars>>

\* tpak_ram_enabled: controller.tpak_write(0x0000, bytes((0x0a,)) * 32),
\* before the try; then the choice between the two loops
RamEnable ==
    /\ pc = "ram_on"
    /\ \E o \in OutcomeSeqs(2) :
         LET m == tpak_write(M, 0, Block(10), o)
         IN  /\ Commit(m)
             /\ IF m.exc
                THEN /\ exc' = "SerialException" /\ pc' = "power_off"
                     /\ UNCHANGED <<i, addr>>
                ELSE /\ exc' = exc
                     /\ IF ram_bytes < 8192
                        THEN pc' = "data" /\ addr' = 40960 /\ i' = i
                        ELSE pc' = "bank" /\ i' = 0 /\ addr' = addr
    /\ UNCHANGED <<cmd, outcome, ram_bytes, stdin, out, apiVars, crcVars>>

\* A mutant of BankSelect: every bank write carries 0.
BankSelectZero ==
    /\ pc = "bank"
    /\ \E o \in OutcomeSeqs(2) :
         LET m == tpak_write(M, 16384, Block(0), o)
         IN  /\ Commit(m)
             /\ IF m.exc
                THEN /\ exc' = "SerialException" /\ pc' = "ram_off"
                     /\ addr' = addr
                ELSE pc' = "data" /\ addr' = 40960 /\ exc' = exc
    /\ UNCHANGED <<cmd, outcome, ram_bytes, i, stdin, out, apiVars, crcVars>>

\* controller.tpak_write(0x4000, bytes((i,)) * 32)
BankSelect ==
    /\ pc = "bank"
    /\ \E o \in OutcomeSeqs(2) :
         LET m == tpak_write(M, 16384, Block(i), o)
         IN  /\ Commit(m)
             /\ IF m.exc
                THEN /\ exc' = "SerialException" /\ pc' = "ram_off"
                     /\ addr' = addr
                ELSE pc' = "data" /\ addr' = 40960 /\ exc' = exc
    /\ UNCHANGED <<cmd, outcome, ram_bytes, i, stdin, out, apiVars, crcVars>>

\* Where the loops go after the access at addr.
Advance ==
    LET stop == IF ram_bytes < 8192 THEN 40960 + ram_bytes ELSE 49152
    IN  IF addr + 32 < stop
        THEN addr' = addr + 32 /\ i' = i /\ pc' = pc
        ELSE IF ram_bytes >= 8192 /\ i + 1 < ram_bytes \div 8192
        THEN i' = i + 1 /\ pc' = "bank" /\ addr' = addr
        ELSE pc' = "ram_off" /\ UNCHANGED <<i, addr>>

\* cmd_dump_cartridge_sram:
\*   sys.stdout.buffer.write(controller.tpak_read(addr))
DumpCartridgeSram ==
    /\ pc = "data" /\ cmd = "dump-cartridge-sram"
    /\ \E o \in OutcomeSeqs(2) :
         LET m == tpak_read(M, addr, o, FillBlock)
         IN  /\ Commit(m)
             /\ IF m.exc
                THEN /\ exc' = "SerialException" /\ pc' = "ram_off"
                     /\ UNCHANGED <<i, addr, out>>
                ELSE out' = Emit(out, m.val) /\ exc' = exc /\ Advance
    /\ UNCHANGED <<cmd, outcome, ram_bytes, stdin, apiVars, crcVars>>

\* cmd_restore_cartridge_sram:
\*   controller.tpak_write(addr, sys.stdin.buffer.read(32))
RestoreCartridgeSram ==
    /\ pc = "data" /\ cmd = "restore-cartridge-sram"
    /\ \E o \in OutcomeSeqs(2) :
         LET data == StdinRead(stdin)
             m == tpak_write(M, addr, data, o)
         IN  /\ Commit(m)
             /\ stdin' = stdin - Len(data)
             /\ IF m.exc
                THEN /\ exc' = "SerialException" /\ pc' = "ram_off"
                     /\ UNCHANGED <<i, addr>>
                ELSE exc' = exc /\ Advance
    /\ UNCHANGED <<cmd, outcome, ram_bytes, out, apiVars, crcVars>>

\* tpak_ram_enabled's finally:
\*   controller.tpak_write(0x0000, bytes((0x00,)) * 32)
RamDisable ==
    /\ pc = "ram_off"
    /\ \E o \in OutcomeSeqs(2) :
         LET m == tpak_write(M, 0, Block(0), o)
         IN  /\ Commit(m)
             /\ exc' = IF m.exc THEN "SerialException" ELSE exc
    /\ pc' = "power_off"
    /\ UNCHANGED <<cmd, outcome, ram_bytes, i, addr, stdin, out, apiVars,
                   crcVars>>

\* tpak_setup's finally: controller.tpak_set_power(False); then the
\* exception, if any, goes on to end the process.
TpakPowerOff ==
    /\ pc = "power_off"
    /\ \E o \in Outcomes :
         LET m == tpak_set_power(M, FALSE, o)
         IN  /\ Commit(m)
             /\ IF m.exc \/ exc = "SerialException" THEN Traceback
                ELSE IF exc = "SystemExit"
                THEN pc' = "done" /\ outcome' = outcome
                ELSE Exit("", 0)
    /\ exc' = "none"
    /\ UNCHANGED <<cmd, ram_bytes, i, addr, stdin, out, apiVars, crcVars>>

Next ==
    \/ HasPak
    \/ PakIsTransferPak
    \/ PakIsRumblePak
    \/ DumpControllerPak
    \/ RestoreControllerPak
    \/ TpakPowerOn
    \/ TpakDetectPak
    \/ ReadHeader
    \/ RamEnable
    \/ BankSelect
    \/ DumpCartridgeSram
    \/ RestoreCartridgeSram
    \/ RamDisable
    \/ TpakPowerOff

Spec == Init /\ [][Next]_vars

-----------------------------------------------------------------------------
(* addr_crc, one loop iteration per step *)

IdleProg ==
    /\ exc = "none" /\ outcome = NoOutcome /\ hb = <<>> /\ ram_bytes = 0
    /\ i = 0 /\ addr = 0 /\ stdin = 0 /\ out = <<>> /\ log = <<>>
    /\ chan = <<>>

InitCrc ==
    /\ cmd = "addr_crc" /\ pc = "crc"
    /\ IdleProg
    /\ call = <<>> /\ prevSel = <<>> /\ sincePower = FALSE
    /\ crcAddr \in AlignedAddrs
    /\ crc = 0
    /\ crcI = -1

\* crc = addr >> 11
CrcStart ==
    /\ pc = "crc" /\ crcI = -1
    /\ crc' = CrcSeed(crcAddr)
    /\ crcI' = 11
    /\ UNCHANGED <<progVars, apiVars, crcAddr>>

\* One iteration of: for i in reversed(range(11))
CrcIter ==
    /\ pc = "crc" /\ crcI > 0
    /\ crc' = CrcStep(crc, crcAddr, crcI - 1)
    /\ crcI' = crcI - 1
    /\ UNCHANGED <<progVars, apiVars, crcAddr>>

\* addr |= addr_crc(addr): the address as it goes on the wire, on which
\* the receiver runs the same computation.
CrcInsert ==
    /\ pc = "crc" /\ crcI = 0
    /\ pc' = "crc_check"
    /\ crcAddr' = BitOr(crcAddr, crc)
    /\ crc' = 0
    /\ crcI' = -1
    /\ UNCHANGED <<cmd, exc, outcome, hb, ram_bytes, i, addr, stdin, out, log,
                   chan, apiVars>>

\* crc = addr >> 11, on the address with its CRC
CrcCheckStart ==
    /\ pc = "crc_check" /\ crcI = -1
    /\ crc' = CrcSeed(crcAddr)
    /\ crcI' = 11
    /\ UNCHANGED <<progVars, apiVars, crcAddr>>

\* One iteration of the loop, on the address with its CRC
CrcCheckIter ==
    /\ pc = "crc_check" /\ crcI > 0
    /\ crc' = CrcStep(crc, crcAddr, crcI - 1)
    /\ crcI' = crcI - 1
    /\ UNCHANGED <<progVars, apiVars, crcAddr>>

NextCrc ==
    \/ CrcStart
    \/ CrcIter
    \/ CrcInsert
    \/ CrcCheckStart
    \/ CrcCheckIter

SpecCrc == InitCrc /\ [][NextCrc]_vars

-----------------------------------------------------------------------------
(* A client of N64Controller: the five raw commands and the Transfer Pak    *)
(* methods, in any order.  log and chan hold the commands and the channel   *)
(* events of the latest call; an exception goes to the client, which goes   *)
(* on.                                                                      *)

ApiAddrs == {0, 320, 16384, 40960}
ApiData == {Block(0), StdinRead(8)}

InitApi ==
    /\ cmd = "api" /\ pc = "api"
    /\ IdleProg
    /\ call = <<>> /\ prevSel = <<>> /\ sincePower = FALSE
    /\ crcAddr = 0 /\ crc = 0 /\ crcI = -1

\* The controller as a new call finds it.
MApi == [log |-> <<>>, chan |-> <<>>, hb |-> hb, exc |-> FALSE, val |-> <<>>]

\* How many window-select writes a call's log holds.
Selects(l) ==
    Cardinality({k \in 1..Len(l) : l[k].op = "write" /\ l[k].addr = 40960})

\* A call that is no tpak_read or tpak_write.
Called(fn, m) ==
    /\ Commit(m)
    /\ call' = <<[fn |-> fn, a |-> -1, set |-> hb /= <<>>, prev |-> prevSel,
                  pwr |-> sincePower]>>
    /\ UNCHANGED <<cmd, pc, exc, outcome, ram_bytes, i, addr, stdin, out,
                   crcVars>>

\* A tpak_read or tpak_write of cartridge address a.
CalledTpak(fn, a, m) ==
    /\ Commit(m)
    /\ call' = <<[fn |-> fn, a |-> a, set |-> hb /= <<>>, prev |-> prevSel,
                  pwr |-> sincePower]>>
    /\ prevSel' = IF hb = <<>> THEN prevSel
                  ELSE <<[sel |-> Shr(a, 14), n |-> Selects(m.log),
                          first |-> prevSel = <<>>]>>
    /\ sincePower' = FALSE
    /\ UNCHANGED <<cmd, pc, exc, outcome, ram_bytes, i, addr, stdin, out,
                   crcVars>>

ApiHasPak ==
    /\ pc = "api"
    /\ \E o \in Outcomes, resp \in StatusResps :
         Called("has_pak", has_pak(MApi, o, resp))
    /\ UNCHANGED <<prevSel, sincePower>>

ApiButtonStatus ==
    /\ pc = "api"
    /\ \E o \in Outcomes :
         Called("_do_button_status",
                do_button_status(MApi, "client", o, <<0, 0, 0, 0>>))
    /\ UNCHANGED <<prevSel, sincePower>>

ApiReset ==
    /\ pc = "api"
    /\ \E o \in Outcomes, resp \in StatusResps :
         Called("_do_reset", do_reset(MApi, "client", o, resp))
    /\ UNCHANGED <<prevSel, sincePower>>

ApiPakRead ==
    /\ pc = "api"
    /\ \E o \in Outcomes, a \in ApiAddrs :
         Called("_do_pak_read",
                do_pak_read(MApi, "client", -1, a, o, FillBlock))
    /\ UNCHANGED <<prevSel, sincePower>>

ApiPakWrite ==
    /\ pc = "api"
    /\ \E o \in Outcomes, a \in ApiAddrs, d \in ApiData :
         Called("_do_pak_write", do_pak_write(MApi, "client", -1, a, d, o))
    /\ UNCHANGED <<prevSel, sincePower>>

ApiSetPower ==
    /\ pc = "api"
    /\ \E o \in Outcomes, power \in BOOLEAN :
         /\ Called("tpak_set_power", tpak_set_power(MApi, power, o))
         /\ sincePower' = (sincePower \/ o = "ok")
    /\ UNCHANGED prevSel

ApiDetectPak ==
    /\ pc = "api"
    /\ \E o \in OutcomeSeqs(2), r \in [1..1 -> DetectBlocks] :
         Called("tpak_detect_pak", tpak_detect_pak(MApi, o, r))
    /\ prevSel' = <<>>
    /\ UNCHANGED sincePower

ApiTpakRead ==
    /\ pc = "api"
    /\ \E o \in OutcomeSeqs(2), a \in ApiAddrs :
         CalledTpak("tpak_read", a, tpak_read(MApi, a, o, FillBlock))

ApiTpakWrite ==
    /\ pc = "api"
    /\ \E o \in OutcomeSeqs(2), a \in ApiAddrs, d \in ApiData :
         CalledTpak("tpak_write", a, tpak_write(MApi, a, d, o))

NextApi ==
    \/ ApiHasPak
    \/ ApiButtonStatus
    \/ ApiReset
    \/ ApiPakRead
    \/ ApiPakWrite
    \/ ApiSetPower
    \/ ApiDetectPak
    \/ ApiTpakRead
    \/ ApiTpakWrite

SpecApi == InitApi /\ [][NextApi]_vars

\* The program's runs and the client's together.
InitAll == Init \/ InitApi
NextAll == Next \/ NextApi
SpecAll == InitAll /\ [][NextAll]_vars

-----------------------------------------------------------------------------
(* Properties of addr_crc, under SpecCrc *)

\* Bit k of x, and XOR by adding the bits modulo 2: arithmetic, where the
\* model of the code recurses on the operands.
BitOf(x, k) == (x \div (2 ^ k)) % 2

RECURSIVE XorSum(_, _, _)
XorSum(x, y, k) ==
    IF k < 0 THEN 0
    ELSE ((BitOf(x, k) + BitOf(y, k)) % 2) * (2 ^ k) + XorSum(x, y, k - 1)

\* The reference bit-serial algorithm: the register is seeded with a >> 11;
\* for bits 10 down to 0 it is shifted left, the bit is ORed in, and 0x35 is
\* XORed in when bit 0x20 is set.
RECURSIVE RefLoop(_, _, _)
RefLoop(reg, a, k) ==
    IF k < 0 THEN reg
    ELSE LET s == 2 * reg + BitOf(a, k)
         IN  RefLoop(IF BitOf(s, 5) = 1 THEN XorSum(s, 53, 15) ELSE s,
                     a, k - 1)

RefCrc(a) == RefLoop(a \div 2048, a, 10)

\* The degree of the polynomial x over GF(2), x > 0.
RECURSIVE Deg(_)
Deg(x) == IF x < 2 THEN 0 ELSE 1 + Deg(x \div 2)

\* The remainder of x divided by the polynomial 0x35 over GF(2): subtract
\* the polynomial, shifted under the leading term, until the degree is
\* below 5.
RECURSIVE PolyMod(_)
PolyMod(x) ==
    IF x < 32 THEN x ELSE PolyMod(XorSum(x, 53 * (2 ^ (Deg(x) - 5)), 15))

CrcDone == pc = "crc" /\ crcI = 0

\* C8: for every 16-bit address a whose low 5 bits are zero, addr_crc(a) is
\* the result of the reference bit-serial algorithm, which is the remainder
\* of a divided by the polynomial 0x35 over GF(2); addr_crc(0x0000) = 0x00.
C8_CrcIsReference ==
    CrcDone =>
        /\ crc = RefCrc(crcAddr)
        /\ crc = PolyMod(crcAddr)
        /\ addr_crc(crcAddr) = crc
        /\ (crcAddr = 0 => crc = 0)

\* C8 witness: the loop has finished on 0x8000, whose CRC is 0x01.
C8_Witness == CrcDone /\ crcAddr = 32768 /\ crc = 1

\* C9: for every 16-bit address a whose low 5 bits are zero, the register
\* is below 0x20 after the seed and after every step, so c = addr_crc(a) is
\* a 5-bit value; a | c differs from a only in the low 5 bits; masking
\* a | c back to its top 11 bits gives a, whose CRC is c again.
C9_CrcFitsLowBits ==
    /\ (pc = "crc" /\ crcI >= 0) => crc \in 0..31
    /\ CrcDone =>
         LET w == BitOr(crcAddr, crc)
         IN  /\ w = crcAddr + crc
             /\ w \div 32 = crcAddr \div 32
             /\ BitAnd(w, 65504) = crcAddr
             /\ addr_crc(BitAnd(w, 65504)) = crc

\* C9 witness: the loop has finished on 0xC000, whose CRC is 0x1B.
C9_Witness == CrcDone /\ crcAddr = 49152 /\ crc = 27

-----------------------------------------------------------------------------
(* Properties of the window cache, under SpecApi *)

\* The latest call is a tpak_read or tpak_write made after a
\* tpak_detect_pak.
TpakCall ==
    /\ cmd = "api" /\ call /= <<>>
    /\ call[1].fn \in {"tpak_read", "tpak_write"}
    /\ call[1].set

IsSelect(e) == e.op = "write" /\ e.addr = 40960

\* e is the block access of call c: at (a & 0x3FFF) | 0xC000.
IsAccess(e, c) ==
    /\ e.op = (IF c.fn = "tpak_read" THEN "read" ELSE "write")
    /\ e.addr = 49152 + (c.a % 16384)
    /\ e.n = 1

\* C4: after tpak_detect_pak, a tpak_read or tpak_write issues a
\* window-select write to 0xA000 exactly when its selector a >> 14 differs
\* from the selector of the previous such call, and always when it is the
\* first since tpak_detect_pak; the write carries the selector 32 times and
\* comes immediately before the call's block access.  The first two calls
\* after tpak_detect_pak, when their selectors are equal, issue one
\* window-select write between them.
C4_WindowSelectOnChange ==
    TpakCall =>
        LET c == call[1]
            sel == c.a \div 16384
            changed == c.prev = <<>> \/ c.prev[1].sel /= sel
        IN  /\ Selects(log) = (IF changed THEN 1 ELSE 0)
            /\ changed =>
                 /\ Len(log) >= 1
                 /\ IsSelect(log[1])
                 /\ log[1].data = Block(sel) /\ log[1].n = 1
                 /\ IF log[1].res = "ok"
                    THEN Len(log) = 2 /\ IsAccess(log[2], c)
                    ELSE Len(log) = 1
            /\ ~changed => Len(log) = 1 /\ IsAccess(log[1], c)
            /\ (c.prev /= <<>> /\ c.prev[1].first /\ c.prev[1].sel = sel)
                 => c.prev[1].n + Selects(log) = 1

\* C4 witness: the second call after tpak_detect_pak has the selector of
\* the first, which selected the window, and issues its block access alone.
C4_Witness ==
    /\ TpakCall
    /\ call[1].prev /= <<>>
    /\ call[1].prev[1].first
    /\ call[1].prev[1].sel = call[1].a \div 16384
    /\ call[1].prev[1].n = 1
    /\ Len(log) = 1 /\ log[1].res = "ok" /\ log[1].addr = 49472

\* C5: after any call of tpak_set_power, the next tpak_read or tpak_write
\* issues a window-select write to 0xA000 before its block access, whatever
\* selector was cached before the power change.
C5_PowerCycleResetsWindow ==
    (TpakCall /\ call[1].pwr) => (Len(log) >= 1 /\ IsSelect(log[1]))

-----------------------------------------------------------------------------
(* Properties of the transport, under SpecAll *)

\* (opcode, expected response length)
FrameShapes == {<<0, 3>>, <<1, 4>>, <<2, 33>>, <<3, 1>>, <<255, 3>>}

\* The frame of the latest channel write.
LastFrame ==
    LET ks == {k \in 1..Len(chan) : chan[k].ev = "write"}
    IN  chan[CHOOSE k \in ks : \A j \in ks : j <= k].bytes

\* C10: every command is one channel write of [command length, expected
\* response length, command bytes...] followed by one read of the declared
\* response length before the next channel write (a write the channel
\* rejected raises, so no read follows it); the first header byte is
\* the number of command bytes; (opcode, expected response length) is one
\* of (0x00,3), (0x01,4), (0x02,33), (0x03,1), (0xFF,3); the command length
\* is 1 for status, button-poll and reset, 3 for block-read and 35 for
\* block-write with a 32-byte block.
C10_Framing ==
    /\ \A k \in 1..Len(chan) :
         LET e == chan[k]
         IN  IF e.ev = "write"
             THEN /\ Len(e.bytes) >= 3
                  /\ e.bytes[1] = Len(e.bytes) - 2
                  /\ <<e.bytes[3], e.bytes[2]>> \in FrameShapes
                  /\ e.bytes[3] \in {0, 1, 255} => e.bytes[1] = 1
                  /\ e.bytes[3] = 2 => e.bytes[1] = 3
                  /\ IF e.ok
                     THEN /\ k < Len(chan)
                          /\ chan[k + 1].ev = "read"
                          /\ chan[k + 1].n = e.bytes[2]
                     ELSE k < Len(chan) => chan[k + 1].ev = "write"
             ELSE /\ k > 1 => (chan[k - 1].ev = "write" /\ chan[k - 1].ok)
                  /\ e.ok => Len(e.bytes) = e.n
    /\ log /= <<>> =>
         LET t == log[Len(log)]
         IN  /\ t.op \in {"status", "reset", "button"}
                  => LastFrame[1] = 1
             /\ t.op = "read" => (LastFrame[1] = 3 /\ LastFrame[3] = 2)
             /\ (t.op = "write" /\ Len(t.data) = 32)
                  => (LastFrame[1] = 35 /\ LastFrame[3] = 3)

\* C10 witness: a block read has been answered and a block write of 32
\* bytes after it.
C10_Witness ==
    \E k \in 1..(Len(chan) - 3) :
      /\ chan[k].ev = "write" /\ chan[k].ok /\ chan[k].bytes[3] = 2
      /\ chan[k + 1].ev = "read" /\ chan[k + 1].ok /\ chan[k + 1].n = 33
      /\ chan[k + 2].ev = "write" /\ chan[k + 2].ok
      /\ chan[k + 2].bytes[1] = 35
      /\ chan[k + 3].ev = "read" /\ chan[k + 3].ok /\ chan[k + 3].n = 1

-----------------------------------------------------------------------------
(* The commands' bus traffic, read off the history of a finished run *)

Sent(e) == e.res /= "wfail"

IsPowerOn(e) ==
    /\ e.op = "write" /\ e.cart = -1 /\ e.addr = 32768
    /\ e.by = "tpak_set_power" /\ e.data = Block(132)

IsPowerOff(e) ==
    /\ e.op = "write" /\ e.cart = -1 /\ e.addr = 32768
    /\ e.by = "tpak_set_power" /\ e.data = Block(254)

\* A write of 32 bytes b to cartridge address 0x0000 (not the window
\* select before it).
IsRamSwitch(e, b) ==
    /\ e.op = "write" /\ e.cart = 0 /\ e.addr = 49152 /\ e.data = Block(b)

IsRamEnable(e) == IsRamSwitch(e, 10)
IsRamDisable(e) == IsRamSwitch(e, 0)

IsBankWrite(e) == e.op = "write" /\ e.cart = 16384 /\ e.addr = 49152

IsRamData(e) == e.cart >= 40960 /\ e.cart < 49152 /\ e.addr >= 49152

\* The read of the cartridge header block, answered.
IsHeaderRead(e) ==
    e.op = "read" /\ e.cart = 320 /\ e.addr = 49472 /\ e.res = "ok"

Probe(l) == SelectSeq(l, LAMBDA e : e.cart = -1 /\ e.addr = 32768)
ProbeReads(l) == SelectSeq(Probe(l), LAMBDA e : e.op = "read")
ProbeWrites(l) == SelectSeq(Probe(l), LAMBDA e : e.op = "write")

NoFault(l) == \A k \in 1..Len(l) : l[k].res = "ok"

\* Address 0x8000 stores each block written to it and returns it on the
\* next read.
Echoes(l) ==
    LET p == Probe(l)
    IN  \A k \in 2..Len(p) :
          p[k].op = "read" => p[k].data = p[k - 1].data

Finished(c) == pc = "done" /\ cmd \in c

\* C1: in the two cartridge commands, once the power-on write has been
\* sent, the run ends with the power-off write as its last bus transaction,
\* on every exit path.
C1_PowerOffOnEveryExit ==
    (Finished(CartCommands)
       /\ \E k \in 1..Len(log) : IsPowerOn(log[k]) /\ Sent(log[k]))
    => IsPowerOff(log[Len(log)])

\* C2: when identify-pak has reported an accessory, the last write to
\* 0x8000 carries the block returned by the first read of 0x8000, whatever
\* the reads returned.
C2_LastWriteIsFirstRead ==
    (Finished({"identify-pak"})
       /\ outcome.msg \in {"Transfer Pak inserted.", "Rumble Pak inserted.",
                           "Controller Pak inserted."})
    => LET w == ProbeWrites(log)
       IN  w[Len(w)].data = ProbeReads(log)[1].data

\* C3: when 0x8000 echoes every written block and the status reports an
\* accessory, identify-pak reports the Transfer Pak, and the last block
\* written to 0x8000 is the block it held before the probe.
C3_EchoBusIsTransferPak ==
    (Finished({"identify-pak"}) /\ NoFault(log) /\ Echoes(log)
       /\ BitAnd(log[1].data[3], 1) = 1)
    => /\ outcome = [msg |-> "Transfer Pak inserted.", code |-> 0]
       /\ LET w == ProbeWrites(log)
          IN  /\ w /= <<>>
              /\ w[Len(w)].data = ProbeReads(log)[1].data

\* C3 witness: such a run on a block of mixed bytes.
C3_Witness ==
    /\ Finished({"identify-pak"}) /\ NoFault(log) /\ Echoes(log)
    /\ BitAnd(log[1].data[3], 1) = 1
    /\ Len(log) = 6
    /\ log[2].op = "read" /\ log[2].data = Mixed
    /\ log[6].op = "write" /\ log[6].data = Mixed

\* C6: in the two cartridge commands, every RAM-enable write that was sent
\* is followed by a RAM-disable write and that by the power-off write; the
\* RAM data accesses and the bank writes lie after a RAM-enable write and
\* before any RAM-disable write.
C6_RamBracket ==
    Finished(CartCommands) =>
      /\ \A k \in 1..Len(log) :
           (IsRamEnable(log[k]) /\ Sent(log[k])) =>
             \E j \in (k + 1)..Len(log) :
               /\ IsRamDisable(log[j])
               /\ \E p \in (j + 1)..Len(log) : IsPowerOff(log[p])
      /\ \A k \in 1..Len(log) :
           (IsRamData(log[k]) \/ IsBankWrite(log[k])) =>
             /\ \E e \in 1..(k - 1) : IsRamEnable(log[e])
             /\ \A d \in 1..(k - 1) : ~IsRamDisable(log[d])

\* The mapping of section 4.5, for every value of the header byte.
RamSizeMapping ==
    \A c \in 0..255 :
      ram_size_code_to_bytes(c) =
        CASE c = 0 -> 0 [] c = 1 -> 512 [] c = 2 -> 8192 [] c = 3 -> 32768
          [] c = 4 -> 131072 [] OTHER -> -1

\* C7: the header byte maps 0->0, 1->512, 2->8192, 3->32768, 4->131072 and
\* anything else to unrecognized; when the size read is unrecognized or 0,
\* the cartridge command ends with a failure status, no RAM-enable write
\* and no RAM data access were issued, and the power-off write was.
C7_RamSizeGate ==
    /\ RamSizeMapping
    /\ Finished(CartCommands) =>
         \A k \in 1..Len(log) :
           (IsHeaderRead(log[k])
              /\ ram_size_code_to_bytes(log[k].data[10]) \in {-1, 0})
           => /\ outcome.code = 1
              /\ \A j \in 1..Len(log) :
                   ~IsRamEnable(log[j]) /\ ~IsRamData(log[j])
              /\ IsPowerOff(log[Len(log)])

\* C7 witness: a run that read an unrecognized code and was ended by the
\* power-off write.
C7_Witness ==
    /\ Finished(CartCommands)
    /\ outcome = [msg |-> "Unrecognized RAM code.", code |-> 1]
    /\ \E k \in 1..Len(log) : IsHeaderRead(log[k]) /\ log[k].data[10] = 5
    /\ IsPowerOff(log[Len(log)]) /\ log[Len(log)].res = "ok"

-----------------------------------------------------------------------------
(* The bulk transfers *)

\* The commands of log l issued by caller by.
IssuedBy(l, by) == SelectSeq(l, LAMBDA e : e.by = by)

\* How many commands the entries of l stand for.
RECURSIVE Count(_)
Count(l) == IF l = <<>> THEN 0 ELSE l[1].n + Count(Tail(l))

\* The entries of l cover the addresses from a on, ascending in steps of
\* 32, each once, up to the address before stop.
Covers(l, a, stop) ==
    /\ l /= <<>>
    /\ l[1].addr = a
    /\ \A k \in 1..(Len(l) - 1) : l[k + 1].addr = LastAddr(l[k]) + BlockLen
    /\ LastAddr(l[Len(l)]) = stop - BlockLen

\* C11: dump-controller-pak on a Controller Pak issues, after the probe,
\* exactly 1024 block reads at 0x0000, 0x0020, ..., 0x7FE0, ascending, each
\* address once, and writes the 32 bytes of each read to standard output in
\* that order, 0x8000 bytes in all; when every read returns zeros every
\* byte written is zero.
C11_DumpReadsInOrder ==
    (Finished({"dump-controller-pak"}) /\ outcome = [msg |-> "", code |-> 0])
    => LET d == IssuedBy(log, "cmd_dump_controller_pak")
           probe == Len(log) - Len(d)
       IN  /\ \A k \in 1..Len(log) :
                 (log[k].by = "cmd_dump_controller_pak") = (k > probe)
           /\ \A k \in 1..Len(d) :
                 d[k].op = "read" /\ d[k].cart = -1 /\ d[k].res = "ok"
           /\ Covers(d, 0, 32768)
           /\ Count(d) = 1024
           /\ out = [k \in 1..Len(d) |-> [data |-> d[k].data, n |-> d[k].n]]
           /\ \A k \in 1..Len(out) : Len(out[k].data) = BlockLen
           /\ Count(out) * BlockLen = 32768
           /\ (\A k \in 1..Len(d) : d[k].data = Block(0))
                => \A k \in 1..Len(out) : out[k].data = Block(0)

\* C11 witness: a dump has finished whose second block differs from the
\* zeros around it.
C11_Witness ==
    /\ Finished({"dump-controller-pak"}) /\ outcome = [msg |-> "", code |-> 0]
    /\ out = <<[data |-> Block(0), n |-> 1], [data |-> Mixed, n |-> 1],
               [data |-> Block(0), n |-> 1022]>>

-----------------------------------------------------------------------------
(* tpak_read and tpak_write on every aligned cartridge address: one call on *)
(* a controller whose window cache is fresh from tpak_detect_pak or holds a *)
(* selector.                                                                *)

WinCaches == {<<-1>>, <<2>>}

InitWin ==
    /\ cmd = "window" /\ pc = "win"
    /\ exc = "none" /\ outcome = NoOutcome /\ ram_bytes = 0
    /\ i = 0 /\ stdin = 0 /\ out = <<>> /\ log = <<>> /\ chan = <<>>
    /\ hb \in WinCaches
    /\ addr \in AlignedAddrs
    /\ call = <<>> /\ prevSel = <<>> /\ sincePower = FALSE
    /\ crcAddr = 0 /\ crc = 0 /\ crcI = -1

WinRead ==
    /\ pc = "win"
    /\ \E o \in OutcomeSeqs(2) :
         Commit(tpak_read(M, addr, o, FillBlock))
    /\ pc' = "win_read"
    /\ UNCHANGED <<cmd, exc, outcome, ram_bytes, i, addr, stdin, out,
                   apiVars, crcVars>>

WinWrite ==
    /\ pc = "win"
    /\ \E o \in OutcomeSeqs(2) :
         Commit(tpak_write(M, addr, FillBlock, o))
    /\ pc' = "win_write"
    /\ UNCHANGED <<cmd, exc, outcome, ram_bytes, i, addr, stdin, out,
                   apiVars, crcVars>>

NextWin == WinRead \/ WinWrite

SpecWin == InitWin /\ [][NextWin]_vars

\* C12: for every aligned 16-bit cartridge address a, tpak_read(a) and
\* tpak_write(a, data) access the bus at (a & 0x3FFF) | 0xC000, which lies
\* in 0xC000-0xFFE0, with the selector a >> 14, which lies in 0..3; the
\* code's a | 0xC000 is that address.
C12_WindowAddress ==
    pc \in {"win_read", "win_write"} =>
      LET sel == addr \div 16384
          bus == (addr % 16384) + 49152
      IN  /\ sel \in 0..3 /\ sel = Shr(addr, 14)
          /\ bus \in 49152..65504
          /\ bus = BitOr(BitAnd(addr, 16383), 49152)
          /\ bus = BitOr(addr, 49152)
          /\ \A k \in 1..Len(log) :
               /\ log[k].cart = addr /\ log[k].n = 1
               /\ IF log[k].addr = 40960 /\ k < Len(log)
                  THEN log[k].op = "write" /\ log[k].data = Block(sel)
                  ELSE \/ log[k].addr = bus /\ k = Len(log)
                          /\ log[k].op = (IF pc = "win_read" THEN "read"
                                          ELSE "write")
                       \/ /\ log[k].addr = 40960 /\ log[k].res /= "ok"
                          /\ log[k].data = Block(sel)
          /\ (log = <<>> \/ log[Len(log)].res = "ok")
               => (log /= <<>> /\ log[Len(log)].addr = bus)

\* C12 witness: a read of cartridge address 0xBFE0 has selected window 2
\* and read the block at bus address 0xFFE0.
C12_Witness ==
    /\ pc = "win_read" /\ addr = 49120
    /\ Len(log) = 2
    /\ log[1].addr = 40960 /\ log[1].data = Block(2) /\ log[1].res = "ok"
    /\ log[2].addr = 65504 /\ log[2].op = "read" /\ log[2].res = "ok"

-----------------------------------------------------------------------------
(* The order of the probes *)

DiscriminatingCommands == {"identify-pak"} \cup CpakCommands

\* Entry k of the log is the answered read-back of the pass-through probe:
\* the read that follows pak_is_transfer_pak's write of 0x84.
IsReadBack84(k) ==
    /\ k > 1
    /\ log[k].by = "pak_is_transfer_pak" /\ log[k].op = "read"
    /\ log[k].res = "ok"
    /\ log[k - 1].by = "pak_is_transfer_pak" /\ log[k - 1].op = "write"
    /\ log[k - 1].data = Block(132) /\ log[k - 1].res = "ok"

\* C13: on the path where the read-back after the 0x84 write does not
\* match, the transactions on 0x8000 are exactly: read, write 0x84, read,
\* write 0xFE, write 0x80, read, write of the block the first read returned.
C13_NoMatchSequence ==
    (Finished({"identify-pak"})
       /\ outcome.msg \in {"Rumble Pak inserted.", "Controller Pak inserted."})
    => LET p == Probe(log)
       IN  /\ [k \in 1..Len(p) |-> p[k].op]
                = <<"read", "write", "read", "write", "write", "read",
                    "write">>
           /\ p[2].data = Block(132)
           /\ p[4].data = Block(254)
           /\ p[5].data = Block(128)
           /\ p[7].data = p[1].data

\* C14: in identify-pak and the two Controller Pak commands, a write of the
\* vibration probe is issued only after the pass-through probe's write of
\* 0x84 and its read-back have completed, and none is issued when that
\* read-back returned 0x84.
C14_PassThroughProbeFirst ==
    cmd \in DiscriminatingCommands =>
      /\ \A k \in 1..Len(log) :
           log[k].by = "pak_is_rumble_pak" =>
             \E j \in 1..(k - 1) :
               IsReadBack84(j) /\ log[j].data /= Block(132)
      /\ (\E j \in 1..Len(log) : IsReadBack84(j) /\ log[j].data = Block(132))
           => \A k \in 1..Len(log) :
                /\ log[k].by /= "pak_is_rumble_pak"
                /\ (log[k].op = "write" /\ log[k].addr = 32768
                    /\ log[k].data = Block(128))
                     => (k = Len(log) /\ log[2].data = Block(128))

\* C14 witness: the vibration probe has written 0xFE and 0x80 after a
\* read-back that did not match.
C14_Witness ==
    /\ cmd = "restore-controller-pak"
    /\ Len(log) >= 8
    /\ IsReadBack84(4) /\ log[4].data /= Block(132)
    /\ log[7].by = "pak_is_rumble_pak" /\ log[7].data = Block(254)
    /\ log[8].by = "pak_is_rumble_pak" /\ log[8].data = Block(128)
    /\ log[8].res = "ok"

-----------------------------------------------------------------------------
(* The session's states *)

\* A window-select write or a block access in the cartridge window.
IsCartAccess(e) == e.addr = 40960 \/ e.addr >= 49152

\* The answered read-back of tpak_detect_pak.
IsDetectRead(e) ==
    /\ e.by = "tpak_detect_pak" /\ e.op = "read" /\ e.addr = 45056
    /\ e.res = "ok"

\* C15: in every finished run of the two cartridge commands (the history
\* only grows, and every run finishes), every window-select write and every
\* block access at 0xC000 or above comes after a completed power-on write
\* and a detect read-back of 32 bytes of 0x89, and before the power-off
\* write; when the read-back differs the command ends with the
\* no-cartridge outcome and has issued no such access.
C15_AccessOnlyWhenDetected ==
    Finished(CartCommands) =>
      LET idx == 1..Len(log)
          ons == {p \in idx : IsPowerOn(log[p]) /\ log[p].res = "ok"}
          offs == {j \in idx : IsPowerOff(log[j])}
          reads == {d \in idx : IsDetectRead(log[d])}
          found == {d \in reads : log[d].data = Block(137)}
          accs == {k \in idx : IsCartAccess(log[k])}
      IN  /\ \A k \in accs :
                /\ \E d \in found : d < k
                /\ \A j \in offs : k < j
          /\ \A d \in reads : \E p \in ons : p < d
          /\ reads \ found /= {} =>
                /\ accs = {}
                /\ outcome.code = 1
                /\ IsPowerOff(log[Len(log)])
                /\ log[Len(log)].res = "ok"
                     => outcome.msg = "No cartridge inserted."

\* C15 witness: a run has finished in which the header block was read
\* after a cartridge was detected.
C15_Witness ==
    /\ Finished(CartCommands)
    /\ \E d \in 1..Len(log) :
         IsDetectRead(log[d]) /\ log[d].data = Block(137)
    /\ \E k \in 1..Len(log) : IsHeaderRead(log[k])
    /\ IsPowerOff(log[Len(log)])

-----------------------------------------------------------------------------
(* The banks of cartridge RAM *)

\* The RAM size the run read from the header, -1 before it has.
HeaderSize ==
    LET h == SelectSeq(log, IsHeaderRead)
    IN  IF h = <<>> THEN -1 ELSE ram_size_code_to_bytes(h[1].data[10])

\* Walk the bank writes and RAM data accesses t of a run: bank i's write of
\* 32 bytes of i, then its accesses at cartridge addresses 0xA000, 0xA020,
\* ..., 0xBFE0, then bank i + 1.  next is the cartridge address the walk
\* expects, 0 for a bank write.  The result is the number of banks walked,
\* -1 when t is out of this order.
RECURSIVE BankWalk(_, _, _)
BankWalk(t, b, next) ==
    IF t = <<>> THEN (IF next = 0 THEN b ELSE -1)
    ELSE LET e == t[1]
         IN  IF next = 0
             THEN IF IsBankWrite(e) /\ e.n = 1 /\ e.data = Block(b)
                  THEN BankWalk(Tail(t), b, 40960)
                  ELSE -1
             ELSE IF IsRamData(e) /\ e.cart = next /\ LastCart(e) <= 49120
                  THEN IF LastCart(e) = 49120
                       THEN BankWalk(Tail(t), b + 1, 0)
                       ELSE BankWalk(Tail(t), b, LastCart(e) + BlockLen)
                  ELSE -1

\* C16: a cartridge command that completes on a RAM of s > 0 bytes has
\* issued exactly s/32 RAM data accesses; for s >= 8192 the banks
\* 0 .. s/8192 - 1 come in ascending order, each bank's write of 32 bytes
\* of its index to cartridge address 0x4000 before its 256 accesses at
\* 0xA000, 0xA020, ..., 0xBFE0 and after the accesses of the bank before;
\* for s < 8192 there is no write to cartridge address 0x4000.
C16_BanksInOrder ==
    (Finished(CartCommands) /\ outcome = [msg |-> "", code |-> 0])
    => LET s == HeaderSize
           data == SelectSeq(log, IsRamData)
           t == SelectSeq(log, LAMBDA e : IsRamData(e) \/ IsBankWrite(e))
       IN  /\ s > 0 /\ s = ram_bytes
           /\ Count(data) = s \div BlockLen
           /\ \A k \in 1..Len(data) :
                data[k].op = (IF cmd = "dump-cartridge-sram" THEN "read"
                              ELSE "write")
           /\ IF s >= 8192
              THEN BankWalk(t, 0, 0) = s \div 8192
              ELSE /\ t = data
                   /\ data[1].cart = 40960
                   /\ \A k \in 1..(Len(data) - 1) :
                        data[k + 1].cart = LastCart(data[k]) + BlockLen
                   /\ LastCart(data[Len(data)]) = 40960 + s - BlockLen

\* C16 witness: a dump of a cartridge with four banks has completed.
C16_Witness ==
    /\ Finished({"dump-cartridge-sram"}) /\ outcome = [msg |-> "", code |-> 0]
    /\ ram_bytes = 32768
    /\ Count(SelectSeq(log, IsBankWrite)) = 4
    /\ Count(SelectSeq(log, IsRamData)) = 1024

-----------------------------------------------------------------------------
(* Preconditions *)

\* C17: in each of the five commands, when bit 0 of the third status byte
\* is clear the command reports that no Pak is inserted and the status
\* command is its only transaction; in the two cartridge commands a Pak
\* that is no Transfer Pak ends the command before the power-on write.
C17_NoAccessoryNoTraffic ==
    (Finished(Commands) /\ log[1].res = "ok") =>
      /\ log[1].op = "status"
      /\ (log[1].data[3] % 2 = 0) =>
           /\ outcome.msg = "No Pak inserted."
           /\ outcome.code = (IF cmd = "identify-pak" THEN 0 ELSE 1)
           /\ Len(log) = 1
      /\ (/\ cmd \in CartCommands
          /\ \E k \in 1..Len(log) :
               IsReadBack84(k) /\ log[k].data /= Block(132)
          /\ NoFault(log)) =>
           /\ outcome = [msg |-> "Incorrect Pak inserted.", code |-> 1]
           /\ \A k \in 1..Len(log) :
                log[k].by = "has_pak" \/ log[k].by = "pak_is_transfer_pak"

\* C17 witness: a cartridge command has ended on a status without the
\* accessory bit.
C17_Witness ==
    /\ Finished(CartCommands)
    /\ log = <<Txn("has_pak", "status", -1, -1, <<5, 0, 2>>, "ok")>>
    /\ outcome = [msg |-> "No Pak inserted.", code |-> 1]

-----------------------------------------------------------------------------
(* The blocks of a restore *)

\* C18: in the two restore commands every block write carries exactly 32
\* data bytes, whatever the length of standard input.
C18_RestoreWritesFullBlocks ==
    cmd \in RestoreCommands =>
      \A k \in 1..Len(log) :
        log[k].op = "write" => Len(log[k].data) = BlockLen

-----------------------------------------------------------------------------
(* The window cache and a failed window-select write *)

\* C19: the window cache, when set, holds the selector of the latest
\* window-select write that completed: after a tpak_read or tpak_write
\* whose window-select write was rejected by the channel, the cache does
\* not hold the selector of that write.
C19_FailedSelectKeepsCache ==
    (TpakCall /\ log /= <<>>) =>
      LET e == log[Len(log)]
      IN  (IsSelect(e) /\ e.res = "wfail") => hb /= <<e.data[1]>>

-----------------------------------------------------------------------------
(* The receiver's check of an address, under SpecCrc *)

\* C20: for every 16-bit address a whose low 5 bits are zero, addr_crc of
\* the address with its CRC inserted is zero: addr_crc(a | addr_crc(a)) = 0.
C20_CrcOfCodewordIsZero ==
    (pc = "crc_check" /\ crcI = 0) =>
      LET a == BitAnd(crcAddr, 65504)
      IN  /\ crcAddr = BitOr(a, addr_crc(a))
          /\ crc = 0
          /\ addr_crc(crcAddr) = 0

\* C20 witness: the loop has finished on 0xC01B, which is 0xC000 with its
\* CRC.
C20_Witness == pc = "crc_check" /\ crcI = 0 /\ crcAddr = 49179 /\ crc = 0

=============================================================================
